---------------------------- MODULE Spec2Model ----------------------------
(***************************************************************************)
(* A model of the jvs-packets crate: the fixed-capacity packet buffers of  *)
(* the standard and the modified JVS protocol (src/src/jvs.rs,             *)
(* src/src/jvs_modified.rs), their accessors (trait Packet,                *)
(* src/src/packet.rs), the escape codec (ReadByteExt / WriteByteExt) and   *)
(* the stream reader and writer (ReadPacket / WritePacket).                *)
(*                                                                         *)
(* A buffer [u8; N] is a function 0..N-1 -> 0..255.  A byte stream (the    *)
(* Vec inside a std::io::Cursor) is a sequence of bytes, with the cursor   *)
(* position kept beside it.  A Rust panic (a slice index out of range) is  *)
(* an outcome of its own, "panic", distinct from Ok and Err.               *)
(***************************************************************************)
EXTENDS Integers, Sequences, FiniteSets

VARIABLES
    shape,   \* which of the four packet types the packet is
    N,       \* the const generic capacity of the packet
    inner,   \* the packet's buffer: inner: [u8; N]
    fresh,   \* the buffer of a second packet, the one a frame is read into
    stream,  \* the bytes of the cursor: what was written, what is read
    pos,     \* the reading position in stream
    op,      \* the operation that ran last
    arg,     \* the bytes that operation was given
    ret,     \* what it returned: Ok(val), Err(err) or a panic
    steps,   \* how many operations ran
    sent     \* the as_slice() of every packet written so far, in order

vars == <<shape, N, inner, fresh, stream, pos, op, arg, ret, steps, sent>>

---------------------------------------------------------------------------
(* Bytes and the two reserved values. *)

Byte == 0..255

\* 0xE0
SYNC_BYTE == 224

\* 0xD0
MARK_BYTE == 208

wrapping_add(a, b) == (a + b) % 256

wrapping_sub(a, b) == (a - b + 256) % 256

\* `x as u8`
as_u8(x) == x % 256

---------------------------------------------------------------------------
(* The four packet types and their layout constants. *)

JvsRequest == "jvs::RequestPacket"

JvsResponse == "jvs::ResponsePacket"

ModRequest == "jvs_modified::RequestPacket"

ModResponse == "jvs_modified::ResponsePacket"

Shapes == {JvsRequest, JvsResponse, ModRequest, ModResponse}

SIZE_INDEX(s) == IF s \in {JvsRequest, JvsResponse} THEN 2 ELSE 1

DESTINATION_INDEX(s) == IF s \in {JvsRequest, JvsResponse} THEN 1 ELSE 2

DATA_BEGIN_INDEX(s) ==
    CASE s = JvsRequest -> 3
      [] s = JvsResponse -> 4
      [] s = ModRequest -> 5
      [] s = ModResponse -> 7

HasReport(s) == s \in {JvsResponse, ModResponse}

REPORT_INDEX(s) == IF s = JvsResponse THEN 3 ELSE 6

IsModified(s) == s \in {ModRequest, ModResponse}

CMD_INDEX(s) == IF s = ModRequest THEN 4 ELSE 5

SEQUENCE_INDEX(s) == 3

STATUS_INDEX(s) == 4

---------------------------------------------------------------------------
(* Outcomes of an operation. *)

NoRet == [kind |-> "none", err |-> "", val |-> 0]

Ok(v) == [kind |-> "Ok", err |-> "", val |-> v]

Err(e) == [kind |-> "Err", err |-> e, val |-> 0]

Panic == [kind |-> "panic", err |-> "", val |-> 0]

\* io::ErrorKind::InvalidData: the first byte of a frame is not SYNC
InvalidData == "InvalidData"

\* io::ErrorKind::InvalidInput: the packet is too short to be written
InvalidInput == "InvalidInput"

\* io::ErrorKind::UnexpectedEof: read_exact met the end of the stream
UnexpectedEof == "UnexpectedEof"

---------------------------------------------------------------------------
(* The escape codec. *)

\* ReadByteExt::read_u8 on the cursor (st, p): the byte read and the new
\* position, or the end of the stream.
read_u8(st, p) ==
    IF p < Len(st)
    THEN [ok |-> TRUE, val |-> st[p + 1], pos |-> p + 1]
    ELSE [ok |-> FALSE, val |-> 0, pos |-> p]

\* ReadByteExt::read_u8_escaped
read_u8_escaped(st, p) ==
    LET r == read_u8(st, p) IN
    IF ~r.ok THEN r
    ELSE IF r.val = MARK_BYTE
         THEN LET r2 == read_u8(st, r.pos) IN
              IF ~r2.ok THEN r2
              ELSE [ok |-> TRUE, val |-> wrapping_add(r2.val, 1), pos |-> r2.pos]
         ELSE r

\* WriteByteExt::write_u8_escaped: the bytes put on the sink; what it
\* returns is their number.
write_u8_escaped_sync_only(b) ==
    IF b = SYNC_BYTE
    THEN <<MARK_BYTE, wrapping_sub(b, 1)>>
    ELSE <<b>>

write_u8_escaped(b) ==
    IF b = SYNC_BYTE \/ b = MARK_BYTE
    THEN <<MARK_BYTE, wrapping_sub(b, 1)>>
    ELSE <<b>>

---------------------------------------------------------------------------
(* The codec alone: one byte is encoded onto an empty sink, and the sink   *)
(* is then decoded from its start.                                         *)

InitCodec ==
    /\ shape = JvsRequest
    /\ N = 0
    /\ inner = <<>>
    /\ fresh = <<>>
    /\ stream = <<>>
    /\ pos = 0
    /\ op = "init"
    /\ arg \in {<<b>> : b \in Byte}
    /\ ret = NoRet
    /\ steps = 0
    /\ sent = <<>>

WriteU8Escaped ==
    /\ op = "init"
    /\ stream' = stream \o write_u8_escaped(arg[1])
    /\ ret' = Ok(Len(write_u8_escaped(arg[1])))
    /\ op' = "write_u8_escaped"
    /\ steps' = steps + 1
    /\ UNCHANGED <<shape, N, inner, fresh, pos, arg, sent>>

ReadU8Escaped ==
    /\ op \in {"init", "write_u8_escaped"}
    /\ LET r == read_u8_escaped(stream, pos) IN
        /\ pos' = r.pos
        /\ ret' = IF r.ok THEN Ok(r.val) ELSE Err(UnexpectedEof)
    /\ op' = "read_u8_escaped"
    /\ steps' = steps + 1
    /\ UNCHANGED <<shape, N, inner, fresh, stream, arg, sent>>

NextCodec == WriteU8Escaped \/ ReadU8Escaped

SpecCodec == InitCodec /\ [][NextCodec]_vars

\* C1: for every byte b, write_u8_escaped(b) emits [0xD0, 0xDF] for 0xE0,
\* [0xD0, 0xCF] for 0xD0 and [b] otherwise, and read_u8_escaped on what was
\* emitted returns b and consumes exactly the emitted bytes.
C1_EscapeRoundTrip ==
    LET b == arg[1]
        expected == CASE b = 224 -> <<208, 223>>
                      [] b = 208 -> <<208, 207>>
                      [] OTHER -> <<b>>
    IN  /\ (op = "write_u8_escaped" => stream = expected /\ pos = 0)
        /\ (op = "read_u8_escaped" /\ stream # <<>> =>
               /\ stream = expected
               /\ ret = Ok(b)
               /\ pos = Len(stream))

\* The byte 0xD0 was encoded as two bytes and both were consumed decoding it.
C1_Witness ==
    /\ op = "read_u8_escaped"
    /\ arg = <<208>>
    /\ stream = <<208, 207>>
    /\ pos = 2
    /\ ret = Ok(208)

---------------------------------------------------------------------------
(* Buffers and the accessors of trait Packet.  A mutator yields the buffer *)
(* it leaves and whether it returned (ok) or panicked on a slice index.    *)

\* [0; N]
Zeroes(n) == [i \in 0..(n - 1) |-> 0]

\* new()
new(n) == Zeroes(n)

Returned(buf) == [ok |-> TRUE, inner |-> buf]

Panicked(buf) == [ok |-> FALSE, inner |-> buf]

\* buf[i] = v, which panics when i is not an index of the buffer
Store(n, buf, i, v) ==
    IF i < n THEN Returned([buf EXCEPT ![i] = v]) ELSE Panicked(buf)

\* dst[at..at + src.len()].copy_from_slice(src), the range being in bounds
CopyInto(buf, at, src) ==
    [i \in DOMAIN buf |->
        IF at <= i /\ i < at + Len(src) THEN src[i - at + 1] ELSE buf[i]]

\* Packet::len_of_packet
len_of_packet(s, buf) == SIZE_INDEX(s) + buf[SIZE_INDEX(s)] + 1

\* Packet::as_slice, as a sequence; it panics when len_of_packet() > N
as_slice(s, buf) == [k \in 1..len_of_packet(s, buf) |-> buf[k - 1]]

\* Packet::size
size(s, buf) == buf[SIZE_INDEX(s)]

\* Packet::dest
dest(s, buf) == buf[DESTINATION_INDEX(s)]

\* Packet::set_sync
set_sync(s, n, buf) == Store(n, buf, 0, SYNC_BYTE)

\* Packet::set_size
set_size(s, n, buf, x) == Store(n, buf, SIZE_INDEX(s), x)

\* Packet::set_dest
set_dest(s, n, buf, x) == Store(n, buf, DESTINATION_INDEX(s), x)

\* Packet::data: the slice [DATA_BEGIN_INDEX .. len_of_packet() - 1], which
\* panics when the range is reversed or ends past the buffer
data(s, n, buf) ==
    LET lo == DATA_BEGIN_INDEX(s)
        hi == len_of_packet(s, buf) - 1
    IN  IF lo > hi \/ hi > n
        THEN [ok |-> FALSE, val |-> <<>>]
        ELSE [ok |-> TRUE, val |-> [k \in 1..(hi - lo) |-> buf[lo + k - 1]]]

\* Packet::set_data
set_data(s, n, buf, d) ==
    LET sz == Len(d) + DATA_BEGIN_INDEX(s) IN
    IF sz > n THEN Panicked(buf)
    ELSE set_size(s, n, CopyInto(buf, DATA_BEGIN_INDEX(s), d),
                  as_u8(sz - SIZE_INDEX(s)))

\* fold(0, |acc: u8, &x| acc.wrapping_add(x)) over the bytes at offsets
\* i .. hi of the buffer
RECURSIVE FoldSum(_, _, _, _)
FoldSum(buf, i, hi, acc) ==
    IF i > hi THEN acc
    ELSE FoldSum(buf, i + 1, hi, wrapping_add(acc, buf[i]))

\* Packet::set_checksum
set_checksum(s, n, buf, c) == Store(n, buf, len_of_packet(s, buf) - 1, c)

\* Packet::checksum
checksum(s, n, buf) ==
    LET at == len_of_packet(s, buf) - 1 IN
    IF at < n THEN [ok |-> TRUE, val |-> buf[at]] ELSE [ok |-> FALSE, val |-> 0]

\* Packet::calculate_checksum
calculate_checksum_with_sync(s, n, buf) ==
    LET len == len_of_packet(s, buf) IN
    IF len > n THEN Panicked(buf)
    ELSE set_checksum(s, n, buf, FoldSum(buf, 0, len - 2, 0))

calculate_checksum(s, n, buf) ==
    LET len == len_of_packet(s, buf) IN
    IF len > n THEN Panicked(buf)
    ELSE set_checksum(s, n, buf, FoldSum(buf, 1, len - 2, 0))

\* ReportField::set_report
set_report(s, n, buf, x) == Store(n, buf, REPORT_INDEX(s), x)

\* ModifiedPacket::set_cmd
set_cmd(s, n, buf, x) == Store(n, buf, CMD_INDEX(s), x)

\* ModifiedPacket::set_sequence
set_sequence(s, n, buf, x) == Store(n, buf, SEQUENCE_INDEX(s), x)

\* jvs_modified::ResponsePacket::set_status
set_status(s, n, buf, x) == Store(n, buf, STATUS_INDEX(s), x)

\* from_slice
from_slice(n, slice) ==
    IF Len(slice) > n THEN Panicked(new(n))
    ELSE Returned(CopyInto(new(n), 0, slice))

---------------------------------------------------------------------------
(* The stream reader and the stream writer. *)

\* for b in &mut buf[i..=hi] { *b = self.read_u8_escaped()? }: the loop
\* runs over i..=mid and then, from where that left the cursor, over
\* mid+1..=hi (it is split in halves only to keep its evaluation shallow on
\* long frames); it stops at the first read that fails.
RECURSIVE ReadInto(_, _, _, _, _)
ReadInto(st, p, buf, i, hi) ==
    IF i > hi THEN [ok |-> TRUE, pos |-> p, inner |-> buf]
    ELSE IF i = hi
    THEN LET r == read_u8_escaped(st, p) IN
         IF ~r.ok THEN [ok |-> FALSE, pos |-> r.pos, inner |-> buf]
         ELSE [ok |-> TRUE, pos |-> r.pos, inner |-> [buf EXCEPT ![i] = r.val]]
    ELSE LET mid == (i + hi) \div 2
             a == ReadInto(st, p, buf, i, mid)
         IN  IF ~a.ok THEN a ELSE ReadInto(st, a.pos, a.inner, mid + 1, hi)

\* let sync = self.read_u8()?: the first byte of a frame is read raw
read_sync_escaped(st, p) == read_u8_escaped(st, p)

read_sync(st, p) == read_u8(st, p)

\* ReadPacket::read_packet into the buffer buf of a packet of type s and
\* capacity n, from the cursor (st, p): what it returns, the position it
\* leaves the cursor at and the buffer it leaves.
read_packet(s, n, buf, st, p) ==
    LET r0 == read_sync(st, p) IN
    IF ~r0.ok
    THEN [ret |-> Err(UnexpectedEof), pos |-> r0.pos, inner |-> buf]
    ELSE IF r0.val # SYNC_BYTE
    THEN [ret |-> Err(InvalidData), pos |-> r0.pos, inner |-> buf]
    ELSE IF n = 0
    THEN [ret |-> Panic, pos |-> r0.pos, inner |-> buf]
    ELSE LET b0 == [buf EXCEPT ![0] = r0.val] IN
    IF SIZE_INDEX(s) + 1 > n
    THEN [ret |-> Panic, pos |-> r0.pos, inner |-> b0]
    ELSE LET h == ReadInto(st, r0.pos, b0, 1, SIZE_INDEX(s)) IN
    IF ~h.ok
    THEN [ret |-> Err(UnexpectedEof), pos |-> h.pos, inner |-> h.inner]
    ELSE LET len == h.inner[SIZE_INDEX(s)] + SIZE_INDEX(s) IN
    IF len + 1 > n
    THEN [ret |-> Panic, pos |-> h.pos, inner |-> h.inner]
    ELSE LET t == ReadInto(st, h.pos, h.inner, SIZE_INDEX(s) + 1, len) IN
    IF ~t.ok
    THEN [ret |-> Err(UnexpectedEof), pos |-> t.pos, inner |-> t.inner]
    ELSE [ret |-> Ok(as_u8(len_of_packet(s, t.inner))),
          pos |-> t.pos, inner |-> t.inner]

\* for &b in &slice[i..=hi] { bytes_written += self.write_u8_escaped(b)?;
\* checksum = checksum.wrapping_add(b) }: the bytes emitted, their count
\* and the running sum
RECURSIVE WriteFrom(_, _, _, _)
WriteFrom(buf, i, hi, acc) ==
    IF i > hi THEN acc
    ELSE WriteFrom(buf, i + 1, hi,
            [out |-> acc.out \o write_u8_escaped(buf[i]),
             written |-> acc.written + Len(write_u8_escaped(buf[i])),
             checksum |-> wrapping_add(acc.checksum, buf[i])])

\* WritePacket::write_packet: what it returns and the bytes it puts on the
\* sink (the SYNC byte is on the sink before as_slice() can panic)
write_packet(s, n, buf) ==
    LET len == len_of_packet(s, buf) IN
    IF len < DATA_BEGIN_INDEX(s) + 1
    THEN [ret |-> Err(InvalidInput), out |-> <<>>]
    ELSE IF len > n
    THEN [ret |-> Panic, out |-> <<SYNC_BYTE>>]
    ELSE LET w == WriteFrom(buf, 1, len - 1,
                     [out |-> <<SYNC_BYTE>>, written |-> 1, checksum |-> 0])
         IN  [ret |-> Ok(w.written), out |-> w.out]

\* WritePacket::write_packet_with_checksum
write_packet_with_checksum(s, n, buf) ==
    LET len == len_of_packet(s, buf) IN
    IF len < DATA_BEGIN_INDEX(s) + 1
    THEN [ret |-> Err(InvalidInput), out |-> <<>>]
    ELSE IF len > n
    THEN [ret |-> Panic, out |-> <<SYNC_BYTE>>]
    ELSE LET w == WriteFrom(buf, 1, len - 1,
                     [out |-> <<SYNC_BYTE>>, written |-> 2, checksum |-> 0])
         IN  [ret |-> Ok(w.written),
              out |-> w.out \o write_u8_escaped(w.checksum)]

---------------------------------------------------------------------------
(* Inputs. *)

\* the capacity of the packets whose mutators are explored
SmallN == 10

\* a capacity past what one SIZE byte can describe
LargeN == 264

\* how many operations run on one packet
MaxOps == 3

\* the longest data given to set_data on a packet of capacity SmallN
MaxDataLen == 8

\* [v; k]
Fill(k, v) == [i \in 1..k |-> v]

\* the tests' frames (jvs.rs and jvs_modified.rs, mod tests)
JVS_REQUEST_DATA == <<224, 255, 3, 1, 2, 5>>

JVS_RESPONSE_DATA == <<224, 255, 4, 1, 1, 2, 7>>

MOD_REQUEST_DATA == <<224, 6, 255, 1, 2, 1, 2, 11>>

MOD_RESPONSE_DATA == <<224, 8, 255, 1, 3, 2, 4, 1, 2, 20>>

TestFrames ==
    {JVS_REQUEST_DATA, JVS_RESPONSE_DATA, MOD_REQUEST_DATA, MOD_RESPONSE_DATA}

\* values given to the one-byte setters: small ones, one that makes sums
\* wrap, and the two reserved bytes
FieldVals == {1, 255, SYNC_BYTE, MARK_BYTE}

SizeVals == {0, 1, 4, 255}

DataVals == {1, SYNC_BYTE}

DataSeqs ==
    {Fill(k, v) : k \in 0..MaxDataLen, v \in DataVals} \cup {<<1, 2>>}

---------------------------------------------------------------------------
(* A packet and its mutators: a packet of capacity SmallN is created by    *)
(* new(), and then any of the public mutators, from_slice and read_packet  *)
(* run on it.  Nothing runs after a panic.                                 *)

InitPacket ==
    /\ shape \in Shapes
    /\ N = SmallN
    /\ inner = new(N)
    /\ fresh = <<>>
    /\ stream = <<>>
    /\ pos = 0
    /\ op = "new"
    /\ arg = <<>>
    /\ ret = NoRet
    /\ steps = 0
    /\ sent = <<>>

CanRun == ret.kind # "panic" /\ steps < MaxOps

\* the packet after a mutator that yields r
Mutated(name, a, r) ==
    /\ inner' = r.inner
    /\ ret' = IF r.ok THEN Ok(0) ELSE Panic
    /\ op' = name
    /\ arg' = a
    /\ steps' = steps + 1
    /\ UNCHANGED <<shape, N, fresh, stream, pos, sent>>

SetSync ==
    /\ CanRun
    /\ Mutated("set_sync", <<>>, set_sync(shape, N, inner))

SetSize ==
    /\ CanRun
    /\ \E x \in SizeVals :
        Mutated("set_size", <<x>>, set_size(shape, N, inner, x))

SetDest ==
    /\ CanRun
    /\ \E x \in FieldVals :
        Mutated("set_dest", <<x>>, set_dest(shape, N, inner, x))

SetData ==
    /\ CanRun
    /\ \E d \in DataSeqs :
        Mutated("set_data", d, set_data(shape, N, inner, d))

SetChecksum ==
    /\ CanRun
    /\ \E x \in FieldVals :
        Mutated("set_checksum", <<x>>, set_checksum(shape, N, inner, x))

CalculateChecksum ==
    /\ CanRun
    /\ Mutated("calculate_checksum", <<>>, calculate_checksum(shape, N, inner))

SetReport ==
    /\ CanRun
    /\ HasReport(shape)
    /\ \E x \in FieldVals :
        Mutated("set_report", <<x>>, set_report(shape, N, inner, x))

SetCmd ==
    /\ CanRun
    /\ IsModified(shape)
    /\ \E x \in FieldVals :
        Mutated("set_cmd", <<x>>, set_cmd(shape, N, inner, x))

SetSequence ==
    /\ CanRun
    /\ IsModified(shape)
    /\ \E x \in FieldVals :
        Mutated("set_sequence", <<x>>, set_sequence(shape, N, inner, x))

SetStatus ==
    /\ CanRun
    /\ shape = ModResponse
    /\ \E x \in FieldVals :
        Mutated("set_status", <<x>>, set_status(shape, N, inner, x))

\* packet = P::from_slice(slice)
FromSlice ==
    /\ CanRun
    /\ \E slice \in TestFrames :
        Mutated("from_slice", slice, from_slice(N, slice))

\* Cursor::new(frame).read_packet(&mut packet)
ReadIntoPacket ==
    /\ CanRun
    /\ \E frame \in TestFrames :
        LET r == read_packet(shape, N, inner, frame, 0) IN
        /\ inner' = r.inner
        /\ ret' = r.ret
        /\ stream' = frame
        /\ pos' = r.pos
        /\ op' = "read_packet"
        /\ arg' = <<>>
        /\ steps' = steps + 1
        /\ UNCHANGED <<shape, N, fresh, sent>>

NextPacket ==
    \/ SetSync
    \/ SetSize
    \/ SetDest
    \/ SetData
    \/ SetChecksum
    \/ CalculateChecksum
    \/ SetReport
    \/ SetCmd
    \/ SetSequence
    \/ SetStatus
    \/ FromSlice
    \/ ReadIntoPacket

SpecPacket == InitPacket /\ [][NextPacket]_vars

---------------------------------------------------------------------------
(* Claims about one packet and its mutators. *)

\* the sum of the bytes at offsets lo .. hi, as an integer
RECURSIVE IntSum(_, _, _)
IntSum(buf, lo, hi) ==
    IF lo > hi THEN 0 ELSE buf[hi] + IntSum(buf, lo, hi - 1)

\* the bytes at every offset but `at` are those of the buffer before
SameBut(before, after, at) ==
    \A i \in DOMAIN before : i # at => after[i] = before[i]

C8_LengthWithinCapacity == len_of_packet(shape, inner) <= N

\* C9, as stated: in every reachable packet state, the zero-filled buffer of
\* new() included, DATA_BEGIN_INDEX <= len_of_packet() - 1, so that data()
\* is a well-defined range.
C9_ChecksumFollowsData ==
    /\ DATA_BEGIN_INDEX(shape) <= len_of_packet(shape, inner) - 1
    /\ (len_of_packet(shape, inner) <= N => data(shape, N, inner).ok)

\* C13, as stated: set_data(d) and set_dest(x) also calculate a new
\* checksum: after either call has returned, on a packet that has room for
\* its checksum byte and fits its buffer, checksum() is the sum modulo 256 of
\* the bytes at offsets 1 .. len_of_packet() - 2, with no call of
\* calculate_checksum().
C13_SettersRecalculate ==
    (/\ op \in {"set_data", "set_dest"}
     /\ ret.kind = "Ok"
     /\ DATA_BEGIN_INDEX(shape) + 1 <= len_of_packet(shape, inner)
     /\ len_of_packet(shape, inner) <= N)
    => LET len == len_of_packet(shape, inner) IN
       /\ checksum(shape, N, inner).ok
       /\ checksum(shape, N, inner).val = IntSum(inner, 1, len - 2) % 256

---------------------------------------------------------------------------
(* set_data alone, on packets of a small and of a large capacity: data of  *)
(* every length around the ends of the buffer and around the largest       *)
(* length one SIZE byte can describe.                                      *)

\* how many times set_data runs on one packet
MaxDataCalls == 2

Capacities == {SmallN, LargeN}

Near(k, m) == m - 1 <= k /\ k <= m + 1

DataLens(s, n) ==
    {k \in 0..(n + 1) :
        \/ k <= 2
        \/ Near(k, n - DATA_BEGIN_INDEX(s))
        \/ Near(k, 256 - DATA_BEGIN_INDEX(s) + SIZE_INDEX(s))}

InitData ==
    /\ shape \in Shapes
    /\ N \in Capacities
    /\ inner = new(N)
    /\ fresh = <<>>
    /\ stream = <<>>
    /\ pos = 0
    /\ op = "new"
    /\ arg = <<>>
    /\ ret = NoRet
    /\ steps = 0
    /\ sent = <<>>

SetDataOfLength ==
    /\ ret.kind # "panic"
    /\ steps < MaxDataCalls
    /\ \E k \in DataLens(shape, N), v \in DataVals :
        Mutated("set_data", Fill(k, v), set_data(shape, N, inner, Fill(k, v)))

NextData == SetDataOfLength

SpecData == InitData /\ [][NextData]_vars

\* C5, as stated: for every shape, capacity N and data d with
\* DATA_BEGIN_INDEX + len(d) < N, after set_data(d) the SIZE byte is
\* DATA_BEGIN_INDEX + len(d) - SIZE_INDEX as an integer, and data() is d.
C5_SizeConsistency ==
    (op = "set_data" /\ DATA_BEGIN_INDEX(shape) + Len(arg) < N) =>
        /\ ret.kind = "Ok"
        /\ size(shape, inner) =
               DATA_BEGIN_INDEX(shape) + Len(arg) - SIZE_INDEX(shape)
        /\ data(shape, N, inner).ok
        /\ data(shape, N, inner).val = arg

\* C6, as stated: set_data(d) with DATA_BEGIN_INDEX + len(d) > N is rejected
\* with a BufferOverflow error value, not a panic, and leaves the buffer as
\* it was.
C6_OverflowRejected ==
    [][(SetDataOfLength /\ DATA_BEGIN_INDEX(shape) + Len(arg') > N) =>
          /\ ret'.kind = "Err"
          /\ ret'.err = "BufferOverflow"
          /\ inner' = inner]_vars

---------------------------------------------------------------------------
(* One frame on the wire: a packet is built with the setters (or taken     *)
(* from a test frame, or left as new() made it, or given a SIZE byte past  *)
(* its capacity), written to an empty sink by one of the two writers, and  *)
(* the sink is then read back into a packet made by new(), as from_reader  *)
(* does.                                                                   *)

\* the longest data of a built packet
MaxWireData == 2

WireVals == {1, 2, MARK_BYTE, SYNC_BYTE}

WireData ==
    UNION {[1..k -> WireVals] : k \in 0..MaxWireData}

DestVals == {1, 255}

ChecksumVals == {0, 5, SYNC_BYTE}

\* the fields a packet type has besides DEST, SIZE, DATA and SUM, set to x
SetExtras(s, n, buf, x) ==
    LET b1 == IF HasReport(s) THEN set_report(s, n, buf, x).inner ELSE buf
        b2 == IF IsModified(s) THEN set_cmd(s, n, b1, x).inner ELSE b1
        b3 == IF IsModified(s) THEN set_sequence(s, n, b2, x).inner ELSE b2
    IN  IF s = ModResponse THEN set_status(s, n, b3, x).inner ELSE b3

\* new().set_sync().set_dest(dst) ... .set_data(d).set_checksum(c), as the
\* tests build a packet
Built(s, n, dst, d, c) ==
    LET b1 == set_sync(s, n, new(n)).inner
        b2 == set_dest(s, n, b1, dst).inner
        b3 == SetExtras(s, n, b2, 1)
        b4 == set_data(s, n, b3, d)
    IN  IF b4.ok THEN set_checksum(s, n, b4.inner, c) ELSE b4

\* the same, with calculate_checksum() in the place of set_checksum(c)
BuiltSummed(s, n, dst, d) ==
    LET b == Built(s, n, dst, d, 0) IN
    IF b.ok THEN calculate_checksum(s, n, b.inner) ELSE b

InitWire ==
    /\ shape \in Shapes
    /\ N = SmallN
    /\ \/ \E dst \in DestVals, d \in WireData, c \in ChecksumVals :
            /\ Built(shape, N, dst, d, c).ok
            /\ inner = Built(shape, N, dst, d, c).inner
       \/ \E dst \in DestVals, d \in WireData :
            /\ BuiltSummed(shape, N, dst, d).ok
            /\ inner = BuiltSummed(shape, N, dst, d).inner
       \/ \E slice \in TestFrames : inner = from_slice(N, slice).inner
       \/ inner = new(N)
       \/ inner = set_size(shape, N, new(N), 255).inner
    /\ fresh = new(N)
    /\ stream = <<>>
    /\ pos = 0
    /\ op = "built"
    /\ arg = <<>>
    /\ ret = NoRet
    /\ steps = 0
    /\ sent = <<>>

Written(name, w) ==
    /\ stream' = stream \o w.out
    /\ ret' = w.ret
    /\ op' = name
    /\ steps' = steps + 1
    /\ UNCHANGED <<shape, N, inner, fresh, pos, arg, sent>>

WritePacket ==
    /\ op = "built"
    /\ Written("write_packet", write_packet(shape, N, inner))

WritePacketWithChecksum ==
    /\ op = "built"
    /\ Written("write_packet_with_checksum",
               write_packet_with_checksum(shape, N, inner))

\* q = P::new(); reader.read_packet(&mut q)
ReadBack ==
    /\ op \in {"write_packet", "write_packet_with_checksum"}
    /\ ret.kind # "panic"
    /\ LET r == read_packet(shape, N, new(N), stream, pos) IN
        /\ fresh' = r.inner
        /\ pos' = r.pos
        /\ ret' = r.ret
    /\ op' = "read_packet"
    /\ steps' = steps + 1
    /\ UNCHANGED <<shape, N, inner, stream, arg, sent>>

NextWire == WritePacket \/ WritePacketWithChecksum \/ ReadBack

SpecWire == InitWire /\ [][NextWire]_vars

\* the packet is fully populated: it has room for its checksum byte and
\* fits its buffer
FullyPopulated ==
    /\ DATA_BEGIN_INDEX(shape) + 1 <= len_of_packet(shape, inner)
    /\ len_of_packet(shape, inner) <= N

\* the logical bytes of an emitted frame: its first byte as it is, every
\* other byte escape-decoded
RECURSIVE Unescaped(_, _)
Unescaped(st, p) ==
    IF p >= Len(st) THEN <<>>
    ELSE IF st[p + 1] = 208 /\ p + 1 < Len(st)
    THEN <<(st[p + 2] + 1) % 256>> \o Unescaped(st, p + 2)
    ELSE <<st[p + 1]>> \o Unescaped(st, p + 1)

LogicalBytes(st) == IF st = <<>> THEN <<>> ELSE <<st[1]>> \o Unescaped(st, 1)

\* C2, as stated: a fully populated packet p written with
\* write_packet_with_checksum and read back into a fresh buffer q gives a q
\* of the length of p, equal to p at every offset but the checksum's, whose
\* checksum byte is the wrapping sum of p's bytes 1 .. len_of_packet() - 2.
C2_RoundTrip ==
    [][(/\ ReadBack
        /\ op = "write_packet_with_checksum"
        /\ FullyPopulated)
       => LET len == len_of_packet(shape, inner) IN
          /\ ret'.kind = "Ok"
          /\ len_of_packet(shape, fresh') = len
          /\ \A i \in 0..(len - 2) : fresh'[i] = inner[i]
          /\ fresh'[len - 1] = IntSum(inner, 1, len - 2) % 256]_vars

\* C3, as stated: write_packet_with_checksum emits, as logical bytes, SYNC,
\* the packet's bytes 1 .. len_of_packet() - 2 and the wrapping sum of
\* exactly those bytes, the stored checksum byte being neither emitted nor
\* summed; so a packet whose stored checksum is correct and that has no byte
\* to escape is emitted as packet.as_slice().
C3_StoredChecksumIgnored ==
    (op = "write_packet_with_checksum" /\ ret.kind = "Ok") =>
        LET len == len_of_packet(shape, inner)
            sum == IntSum(inner, 1, len - 2) % 256
        IN  /\ LogicalBytes(stream) =
                   <<224>> \o [k \in 1..(len - 2) |-> inner[k]] \o <<sum>>
            /\ (/\ inner[0] = 224
                /\ inner[len - 1] = sum
                /\ \A i \in 1..(len - 1) : inner[i] \notin {224, 208})
               => stream = as_slice(shape, inner)

\* C10, as stated: write_packet and write_packet_with_checksum return the
\* number of bytes they put on the sink, 1 for SYNC and 1 or 2 for every
\* other logical byte, the final checksum byte included; the result is never
\* smaller than the logical length.
C10_BytesWritten ==
    (op \in {"write_packet", "write_packet_with_checksum"} /\ ret.kind = "Ok")
        => /\ ret.val = Len(stream)
           /\ ret.val >= Len(LogicalBytes(stream))

\* C12: in the bytes write_packet and write_packet_with_checksum put on the
\* sink, for any packet content, 0xE0 occurs only at position 0 and is there
\* as one unescaped byte, and 0xD0 occurs only as an escape marker with 0xDF
\* or 0xCF right after it; the packet's bytes at offsets >= 1, 0xE0 and 0xD0
\* among them, are on the sink in their escaped form, so that decoding the
\* stream gives them back.
C12_NoLiteralMarkers ==
    (op \in {"write_packet", "write_packet_with_checksum"}) =>
        /\ (stream # <<>> => stream[1] = 224)
        /\ (ret.kind = "Ok" => stream # <<>>)
        /\ \A i \in 2..Len(stream) :
            /\ stream[i] # 224
            /\ (stream[i] = 208 =>
                    i < Len(stream) /\ stream[i + 1] \in {223, 207})
        /\ (ret.kind = "Ok" =>
                \A k \in 1..(len_of_packet(shape, inner) - 1) :
                    LogicalBytes(stream)[k + 1] = inner[k])

\* a frame was written in which both a 0xE0 and a 0xD0 of the packet were
\* escaped
C12_Witness ==
    /\ op \in {"write_packet", "write_packet_with_checksum"}
    /\ ret.kind = "Ok"
    /\ \E i, j \in 2..(Len(stream) - 1) :
        /\ stream[i] = 208 /\ stream[i + 1] = 223
        /\ stream[j] = 208 /\ stream[j + 1] = 207
    /\ \E k \in 1..(len_of_packet(shape, inner) - 1) : inner[k] = 224
    /\ \E k \in 1..(len_of_packet(shape, inner) - 1) : inner[k] = 208

---------------------------------------------------------------------------
(* Reading a raw capture: a cursor over any short byte sequence is read,   *)
(* one read_packet call after another, into a packet made by new().  A     *)
(* call that failed leaves the cursor where it stopped, and the next call  *)
(* goes on from there.                                                     *)

\* the longest raw stream
MaxStreamLen == 5

\* how many read_packet calls run on one cursor
MaxReads == 2

RawVals == {0, 1, MARK_BYTE, SYNC_BYTE}

RawStreams == UNION {[1..k -> RawVals] : k \in 0..MaxStreamLen}

InitRead ==
    /\ shape \in Shapes
    /\ N = SmallN
    /\ inner = new(N)
    /\ fresh = <<>>
    /\ stream \in RawStreams
    /\ pos = 0
    /\ op = "new"
    /\ arg = <<>>
    /\ ret = NoRet
    /\ steps = 0
    /\ sent = <<>>

ReadFrame ==
    /\ ret.kind # "panic"
    /\ steps < MaxReads
    /\ LET r == read_packet(shape, N, inner, stream, pos) IN
        /\ inner' = r.inner
        /\ pos' = r.pos
        /\ ret' = r.ret
    /\ op' = "read_packet"
    /\ steps' = steps + 1
    /\ UNCHANGED <<shape, N, fresh, stream, arg, sent>>

NextRead == ReadFrame

SpecRead == InitRead /\ [][NextRead]_vars

\* C7: when the byte at the cursor is not 0xE0 (0xD0 included), read_packet
\* fails with the invalid-sync error (io::ErrorKind::InvalidData) and has
\* consumed exactly that one byte: a cursor at position 0 is left at 1.
C7_InvalidSync ==
    [][(ReadFrame /\ pos < Len(stream) /\ stream[pos + 1] # 224) =>
          /\ ret' = Err(InvalidData)
          /\ pos' = pos + 1
          /\ (pos = 0 => pos' = 1)
          /\ inner' = inner]_vars

\* The first call on a stream that starts with 0xD0 and goes on failed with
\* the invalid-sync error and left the cursor at position 1.
C7_Witness ==
    /\ op = "read_packet"
    /\ steps = 1
    /\ Len(stream) >= 2
    /\ stream[1] = 208
    /\ ret = Err(InvalidData)
    /\ pos = 1

---------------------------------------------------------------------------
(* Reading frames of every length: a cursor over the frame of a packet     *)
(* with any SIZE byte, escape-encoded as the writer encodes it, is read    *)
(* into a packet of capacity LargeN, which every such frame fits.          *)

\* the bytes lo .. hi of seq, each through write_u8_escaped
RECURSIVE EscapedRange(_, _, _)
EscapedRange(seq, lo, hi) ==
    IF lo > hi THEN <<>>
    ELSE IF lo = hi THEN write_u8_escaped(seq[lo])
    ELSE EscapedRange(seq, lo, (lo + hi) \div 2)
             \o EscapedRange(seq, (lo + hi) \div 2 + 1, hi)

\* the frame of the logical bytes seq: SYNC raw, the rest escaped
FrameOf(seq) == <<SYNC_BYTE>> \o EscapedRange(seq, 2, Len(seq))

\* the logical bytes of a packet of type s with SIZE byte sz: SYNC, the
\* bytes before SIZE set to v, SIZE, and sz bytes v after it
LogicalPacket(s, sz, v) ==
    [k \in 1..(SIZE_INDEX(s) + sz + 1) |->
        IF k = 1 THEN SYNC_BYTE
        ELSE IF k = SIZE_INDEX(s) + 1 THEN sz
        ELSE v]

InitReadLong ==
    /\ shape \in Shapes
    /\ N = LargeN
    /\ inner = new(N)
    /\ fresh = <<>>
    /\ \E sz \in Byte, v \in DataVals : stream = FrameOf(LogicalPacket(shape, sz, v))
    /\ pos = 0
    /\ op = "new"
    /\ arg = <<>>
    /\ ret = NoRet
    /\ steps = 0
    /\ sent = <<>>

NextReadLong == ReadFrame

SpecReadLong == InitReadLong /\ [][NextReadLong]_vars

\* C11, as stated: for every frame read_packet reads successfully, the value
\* it returns is len_of_packet() = SIZE_INDEX + SIZE + 1 of the packet read,
\* for every SIZE byte 0..255 that fits the buffer, lengths of 256 and more
\* included.
C11_ReturnsLength ==
    (op = "read_packet" /\ ret.kind = "Ok") =>
        ret.val = SIZE_INDEX(shape) + size(shape, inner) + 1

---------------------------------------------------------------------------
(* Several frames on one stream: packets are written one after another     *)
(* with write_packet to one sink, and the bytes are read back, one         *)
(* read_packet call per frame, into one packet that is used again for      *)
(* every call.                                                             *)

\* how many frames are put on the stream
MaxFrames == 2

FrameData == {<<>>, <<1>>, <<SYNC_BYTE>>, <<MARK_BYTE, 2>>}

FrameChecksums == {5, SYNC_BYTE}

\* new().set_dest(1) ... .set_data(d).set_checksum(c): the packet of Built,
\* set_sync() left out
BuiltNoSync(s, n, dst, d, c) ==
    LET b2 == set_dest(s, n, new(n), dst).inner
        b3 == SetExtras(s, n, b2, 1)
        b4 == set_data(s, n, b3, d)
    IN  IF b4.ok THEN set_checksum(s, n, b4.inner, c) ELSE b4

\* the packets a frame is made of: all of them have a valid length
FramePackets(s, n) ==
    LET built == {Built(s, n, 1, d, c) : d \in FrameData, c \in FrameChecksums}
                     \cup {BuiltNoSync(s, n, 1, d, c) :
                              d \in FrameData, c \in FrameChecksums}
    IN  {b.inner : b \in {x \in built : x.ok}}

InitFrames ==
    /\ shape \in Shapes
    /\ N = SmallN
    /\ inner = new(N)
    /\ fresh = new(N)
    /\ stream = <<>>
    /\ pos = 0
    /\ op = "new"
    /\ arg = <<>>
    /\ ret = NoRet
    /\ steps = 0
    /\ sent = <<>>

\* writer.write_packet(&packet)
SendFrame ==
    /\ ret.kind # "panic"
    /\ Len(sent) < MaxFrames
    /\ \E p \in FramePackets(shape, N) :
        LET w == write_packet(shape, N, p) IN
        /\ w.ret.kind = "Ok"
        /\ inner' = p
        /\ stream' = stream \o w.out
        /\ ret' = w.ret
        /\ sent' = Append(sent, as_slice(shape, p))
    /\ op' = "write_packet"
    /\ steps' = steps + 1
    /\ UNCHANGED <<shape, N, fresh, pos, arg>>

\* how many read_packet calls ran
Received == steps - Len(sent)

\* reader.read_packet(&mut packet), while a frame is left unread
ReceiveFrame ==
    /\ ret.kind # "panic"
    /\ Received < Len(sent)
    /\ LET r == read_packet(shape, N, fresh, stream, pos) IN
        /\ fresh' = r.inner
        /\ pos' = r.pos
        /\ ret' = r.ret
    /\ op' = "read_packet"
    /\ steps' = steps + 1
    /\ UNCHANGED <<shape, N, inner, stream, arg, sent>>

NextFrames == SendFrame \/ ReceiveFrame

SpecFrames == InitFrames /\ [][NextFrames]_vars

\* the number of bytes the frame of a packet takes on the stream: one for
\* SYNC, two for every later byte that is 0xE0 or 0xD0, one for any other
RECURSIVE PhysicalLen(_, _)
PhysicalLen(slice, k) ==
    IF k > Len(slice) THEN 0
    ELSE IF k = 1 THEN 1 + PhysicalLen(slice, 2)
    ELSE (IF slice[k] \in {224, 208} THEN 2 ELSE 1) + PhysicalLen(slice, k + 1)

\* where on the stream the j-th frame ends
RECURSIVE FrameEnd(_)
FrameEnd(j) == IF j = 0 THEN 0 ELSE FrameEnd(j - 1) + PhysicalLen(sent[j], 1)

\* C14, as stated: the frames write_packet made of packets of valid length,
\* put one after another on one stream, are read back one read_packet call
\* per frame: the j-th call succeeds, gives a packet whose as_slice() is the
\* as_slice() of the j-th packet written, and leaves the cursor at the end
\* of the j-th frame, so that no call takes a byte of the next frame and the
\* call for the last frame leaves the stream exhausted.
C14_OneFrameAtATime ==
    (op = "read_packet") =>
        /\ ret.kind = "Ok"
        /\ as_slice(shape, fresh) = sent[Received]
        /\ pos = FrameEnd(Received)
        /\ (Received = Len(sent) => pos = Len(stream))


===========================================================================
